---------------------------- MODULE Spec2Model ----------------------------
(***************************************************************************)
(* Model of the NTVDM machine core (subsystems/ntvdm/emulator.c): the      *)
(* memory callbacks handed to the CPU engine, the A20 gate, the run flag,  *)
(* machine set-up and tear-down, and fault reporting.                      *)
(*                                                                         *)
(* A ULONG/DWORD is kept at its 32-bit width.  Such a value v is the pair  *)
(* <<v \div 2^20, v % 2^20>>: the second component is the offset inside    *)
(* one megabyte, the first the 12 address bits above it, so that bit 20 of *)
(* v is bit 0 of the first component.                                      *)
(***************************************************************************)
EXTENDS Integers, Sequences, FiniteSets, TLC

(***************************************************************************)
(* 32-bit unsigned arithmetic                                              *)
(***************************************************************************)
\* 2^20: number of values of the low component of a ULONG
LoRange == 1048576
\* 2^12: number of values of the high component of a ULONG
HiRange == 4096

U32(hi, lo) == <<hi, lo>>
Zero32 == U32(0, 0)
One32 == U32(0, 1)
\* the ULONG holding offset p from the arena pointer, and back
Off32(p) == U32(p \div LoRange, p % LoRange)
Idx(x) == x[1] * LoRange + x[2]

\* x + y in ULONG arithmetic (wraps at 2^32)
Add32(x, y) ==
    LET s == x[2] + y[2]
    IN  U32((x[1] + y[1] + (s \div LoRange)) % HiRange, s % LoRange)

\* x - y in ULONG arithmetic (wraps at 2^32)
Sub32(x, y) ==
    LET d == x[2] - y[2]
        borrow == IF d < 0 THEN 1 ELSE 0
    IN  U32((x[1] - y[1] - borrow + HiRange) % HiRange, (d + LoRange) % LoRange)

\* unsigned comparisons
Lt32(x, y) == x[1] < y[1] \/ (x[1] = y[1] /\ x[2] < y[2])
Ge32(x, y) == ~Lt32(x, y)
\* the max() and min() macros on unsigned operands
Max32(x, y) == IF Lt32(y, x) THEN x ELSE y
Min32(x, y) == IF Lt32(x, y) THEN x ELSE y

\* Address & ~(1 << 20)
ClearBit20(x) == U32(x[1] - (x[1] % 2), x[2])

\* The end of the byte range a copy of Size bytes from offset Address walks
\* over: the sum as the pointer arithmetic forms it, not reduced to 32 bits.
EndOf(Address, Size) ==
    LET s == Address[2] + Size[2]
    IN  <<Address[1] + Size[1] + (s \div LoRange), s % LoRange>>

(***************************************************************************)
(* Memory map: constants of emulator.h and the video adapter's queries     *)
(***************************************************************************)
\* the arena holds offsets 0 .. MAX_ADDRESS - 1 (one megabyte)
MAX_ADDRESS == U32(1, 0)
\* read-only firmware region [0xF0000, 0x100000)
ROM_AREA_START == U32(0, 983040)
ROM_AREA_END == U32(1, 0)
\* device-backed video region [0xA0000, 0xB8000)
VgaGetVideoBaseAddress == U32(0, 655360)
VgaGetVideoLimitAddress == U32(0, 753664)

\* The byte range [Address, Address + Size) holds the byte at offset p.
InRange(p, Address, Size) ==
    /\ Ge32(Off32(p), Address)
    /\ Lt32(Off32(p), EndOf(Address, Size))

\* Every byte of [Address, Address + Size) is a byte of the arena.
InArena(Address, Size) ==
    \/ Size = Zero32
    \/ ~Lt32(MAX_ADDRESS, EndOf(Address, Size))

(***************************************************************************)
(* Bounds and input sets                                                   *)
(***************************************************************************)
\* number of operations in a run
MaxOps == 3
\* number of consecutive bytes followed from each address of interest
Window == 4
\* number of arenas the heap can hand out in a run
MaxAllocs == 2

\* the all-ones ULONG, 0xFFFFFFFF
Max32Value == U32(HiRange - 1, LoRange - 1)

\* arena offsets the memory requests start at
BaseOffsets ==
    { 655358,    \* 0x9FFFE: two bytes below the video base
      753662,    \* 0xB7FFE: two bytes below the video limit
      753664,    \* 0xB8000: the video limit
      983038,    \* 0xEFFFE: two bytes below the ROM area
      983040,    \* 0xF0000: first byte of the ROM area
      1048572 }  \* 0xFFFFC: four bytes below MAX_ADDRESS

\* request addresses: the offsets above, 0x1B7FFE (0xB7FFE with bit 20 set)
\* and 0x2B7FFE (0xB7FFE with bit 21 set)
Addresses ==
    { Off32(p) : p \in BaseOffsets } \cup { U32(1, 753662), U32(2, 753662) }

\* request sizes
Sizes == { Zero32, One32, U32(0, 2), U32(0, 4), Max32Value }

\* the requests made in runs of the memory callbacks alone
CoreAddresses == { U32(0, 753662), U32(0, 983038), U32(1, 753662) }
CoreSizes == { One32, U32(0, 2), U32(0, 4), Max32Value }

\* the requests made in runs of every operation: at the first fault site,
\* of two bytes and of 0xFFFFFFFF bytes
RunAddresses == { U32(0, 753662) }
RunSizes == { U32(0, 2), Max32Value }
RunSeeds == { 200 }

\* first bytes of the payloads written
Seeds == { 1, 200 }

\* the fault sites the CPU engine reports (CS, IP)
FaultSites == { <<47103, 14>>, <<65535, 65535>> }

\* exception numbers handed to EmulatorException, all below the 8 it asserts:
\* divide error, invalid opcode and the highest
ExceptionNumbers == { 0, 6, 7 }

\* TO_LINEAR(seg, off)
ToLinear(seg, off) == U32((seg * 16 + off) \div LoRange, (seg * 16 + off) % LoRange)
OpcodeCount == 10

\* Arena offsets whose bytes the model follows. No byte outside the arena is
\* followed: what the process holds after the arena is not the program's, and
\* a byte taken from there has no place in the model's state.
Probes ==
    { q \in UNION { { p + i : i \in 0 .. Window } : p \in BaseOffsets }
            \cup UNION { { s[1] * 16 + s[2] + i : i \in 0 .. OpcodeCount - 1 } : s \in FaultSites }
        : q < LoRange }

Bytes == 0 .. 255
\* a byte of the caller's buffer no read has stored into
BufInit == -1
\* byte i of the payload whose first byte is seed
Payload(seed, i) == (seed + i) % 256

\* the outcomes of an access to memory that is not the arena's: the access
\* is made on whatever lies there, or it faults and the process ends
UBOutcomes == { "overrun", "fault" }
\* An operation with defined behaviour has one outcome: ub is a choice only
\* when the operation leaves the memory it owns.
Applies(escapes, ub) == escapes \/ ub = "overrun"

(***************************************************************************)
(* State                                                                   *)
(***************************************************************************)
VARIABLES
    BaseAddress,    \* the arena pointer: 0 is NULL, 1 .. MaxAllocs a heap block
    VdmRunning,     \* the run flag
    A20Line,        \* the A20 gate
    heap,           \* heap block -> "unused" | "live" | "freed"
    freed,          \* heap block -> number of HeapFree calls made on it
    arena,          \* followed bytes of the block BaseAddress points to
    vgaMem,         \* the video adapter's own memory, by guest address
    rdBuf,          \* the caller's buffer of the last read, after the call: followed bytes
    cpu,            \* what the core has asked of the CPU engine
    devices,        \* device emulator -> "none" | "up" | "failed" | "down"
    bops,           \* identifiers registered in the trap table
    message,        \* the last diagnostic shown by DisplayMessage: followed bytes
    lastOp,         \* the last operation, its arguments and the calls it made
    nOps,           \* operations so far
    Faulted         \* the process was ended by an access fault

vars == << BaseAddress, VdmRunning, A20Line, heap, freed, arena, vgaMem, rdBuf,
           cpu, devices, bops, message, lastOp, nOps, Faulted >>

NULL == 0
Blocks == 1 .. MaxAllocs
BOP_DEBUGGER == 86
Devices == { "Pic", "Pit", "Cmos", "Speaker", "PS2", "Vga" }

\* a call made by an operation, with the byte range it is handed
Call(fn, addr, size) == [fn |-> fn, addr |-> addr, size |-> size]
\* a call that is handed no byte range
Plain(fn) == Call(fn, Zero32, Zero32)

\* an operation of the core: its arguments (a memory request's address, size
\* and payload, eff the address after A20 masking), the calls it made in
\* order, and its return value (0 for FALSE or none, 1 for TRUE)
Op(op, Address, Size, seed, eff, calls) ==
    [op |-> op, Address |-> Address, Size |-> Size, seed |-> seed,
     eff |-> eff, calls |-> calls, ret |-> 0]
\* an operation that takes no memory request
CtlOp(op, calls, ret) ==
    [op |-> op, Address |-> Zero32, Size |-> Zero32, seed |-> 0,
     eff |-> Zero32, calls |-> calls, ret |-> ret]

ZeroMemory == [p \in Probes |-> 0]
BlankBuffer == [i \in 0 .. Window - 1 |-> BufInit]
NoMessage == [shown |-> FALSE, ExceptionNumber |-> 0, CS |-> 0, IP |-> 0,
              Opcode |-> [i \in 0 .. OpcodeCount - 1 |-> 0]]

\* BaseAddress points to an allocated block
MemLive == BaseAddress # NULL /\ heap[BaseAddress] = "live"

\* Every byte of [Address, Address + Size) is a byte of an allocated arena.
Owned(Address, Size) ==
    \/ Size = Zero32
    \/ MemLive /\ ~Lt32(MAX_ADDRESS, EndOf(Address, Size))

\* an operation can start
CanRun == ~Faulted /\ nOps < MaxOps

\* The byte BaseAddress + pos is a byte of an allocated arena. Only such a
\* byte has a value the program decides: what a read finds beyond the arena,
\* or through a BaseAddress that is NULL or was handed to HeapFree, is
\* whatever the process holds there, and the model does not follow it.
Followed(pos) == MemLive /\ Lt32(pos, MAX_ADDRESS)
\* the byte at the followed offset pos of memory image mem
ByteAt(mem, pos) == mem[Idx(pos)]

(***************************************************************************)
(* The video adapter (hardware/vga.c), seen through its two entry points   *)
(***************************************************************************)
\* the adapter's representation of a byte written to it
VgaStore(b) == 255 - b

\* VgaReadMemory(Address, Buffer, Size) with Buffer = BaseAddress + Address:
\* the adapter's bytes for [Address, Address + Size) are stored into the arena
VgaReadMemory(mem, Address, Size) ==
    [p \in Probes |-> IF InRange(p, Address, Size) THEN vgaMem[p] ELSE mem[p]]

\* VgaWriteMemory(Address, Buffer, Size) with Buffer = BaseAddress + Address:
\* the adapter takes the arena's bytes of [Address, Address + Size)
VgaWriteMemory(mem, Address, Size) ==
    [p \in Probes |-> IF InRange(p, Address, Size) THEN VgaStore(mem[p]) ELSE vgaMem[p]]

(***************************************************************************)
(* The memory callbacks                                                    *)
(***************************************************************************)
\* the masking left out
MaskA20_Unmasked(Address) == Address

\* if (!A20Line) Address &= ~(1 << 20);
MaskA20(Address) == IF ~A20Line THEN ClearBit20(Address) ELSE Address

\* (Address + Size) >= MAX_ADDRESS
OutOfBounds(Address, Size) == Ge32(Add32(Address, Size), MAX_ADDRESS)

\* (Address + Size) >= ROM_AREA_START && (Address < ROM_AREA_END)
TouchesRom(Address, Size) ==
    Ge32(Add32(Address, Size), ROM_AREA_START) /\ Lt32(Address, ROM_AREA_END)

\* (Address + Size) >= VgaGetVideoBaseAddress() && Address < VgaGetVideoLimitAddress()
TouchesVga(Address, Size) ==
    /\ Ge32(Add32(Address, Size), VgaGetVideoBaseAddress)
    /\ Lt32(Address, VgaGetVideoLimitAddress)

\* VgaAddress = max(Address, VgaGetVideoBaseAddress())
VgaAddressOf(Address) == Max32(Address, VgaGetVideoBaseAddress)

\* ActualSize = min(Address + Size - 1, VgaGetVideoLimitAddress()) - VgaAddress + 1
ActualSizeOf(Address, Size) ==
    Add32(Sub32(Min32(Sub32(Add32(Address, Size), One32), VgaGetVideoLimitAddress),
                VgaAddressOf(Address)),
          One32)

\* an accepted request at Address hands RtlCopyMemory or the adapter bytes
\* that are not the arena's
Escapes(Address, Size) ==
    \/ ~Owned(Address, Size)
    \/ /\ TouchesVga(Address, Size)
       /\ ~Owned(VgaAddressOf(Address), ActualSizeOf(Address, Size))

\* RtlCopyMemory(BaseAddress + Address, Buffer, Size)
CopyIn(mem, Address, Size, seed) ==
    [p \in Probes |-> IF InRange(p, Address, Size)
                         THEN Payload(seed, p - Idx(Address))
                         ELSE mem[p]]

\* RtlCopyMemory(Buffer, BaseAddress + Address, Size)
\* The buffer bytes copied from memory that is not the arena's are not followed.
CopyOut(mem, Address, Size) ==
    [i \in { j \in 0 .. Window - 1 :
                Lt32(Off32(j), Size) => Followed(EndOf(Address, Off32(j))) } |->
        IF Lt32(Off32(i), Size)
           THEN ByteAt(mem, EndOf(Address, Off32(i)))
           ELSE BufInit]

\* the refill left out: the read copies what the arena holds
VgaRefill_Skip(mem, Address, Size) == mem

\* lines 62-76 of the read: the adapter refills its part of the arena
VgaRefill(mem, Address, Size) ==
    IF TouchesVga(Address, Size)
       THEN VgaReadMemory(mem, VgaAddressOf(Address), ActualSizeOf(Address, Size))
       ELSE mem

\* What a read does to the arena and to the caller's buffer, the calls it
\* makes, and whether it ends the process. The adapter's fill and the copy
\* are two accesses, each with its own outcome where it leaves the arena:
\* ubFill for VgaReadMemory, ubCopy for the RtlCopyMemory that follows a
\* completed fill.
ReadOutcome(Address, Size, ubFill, ubCopy) ==
    LET eff == MaskA20(Address)
        vga == TouchesVga(eff, Size)
        va == VgaAddressOf(eff)
        as == ActualSizeOf(eff, Size)
        fill == Call("VgaReadMemory", va, as)
        copy == Call("RtlCopyMemory", eff, Size)
        filled == VgaRefill(arena, eff, Size)
        fillEscapes == vga /\ ~Owned(va, as)
        copyEscapes == ~Owned(eff, Size)
        fillFaults == fillEscapes /\ ubFill = "fault"
        copyFaults == copyEscapes /\ ubCopy = "fault"
    IN  IF OutOfBounds(eff, Size)
           THEN [eff |-> eff, calls |-> << >>, arena |-> arena,
                 rdBuf |-> BlankBuffer, Faulted |-> FALSE,
                 fillEscapes |-> FALSE, copyEscapes |-> FALSE]
        ELSE IF fillFaults
           THEN [eff |-> eff, calls |-> << fill >>, arena |-> filled,
                 rdBuf |-> BlankBuffer, Faulted |-> TRUE,
                 fillEscapes |-> TRUE, copyEscapes |-> FALSE]
           ELSE [eff |-> eff,
                 calls |-> (IF vga THEN << fill >> ELSE << >>) \o << copy >>,
                 arena |-> filled,
                 rdBuf |-> CopyOut(filled, eff, Size),
                 Faulted |-> copyFaults,
                 fillEscapes |-> fillEscapes, copyEscapes |-> copyEscapes]

EmulatorReadMemory(Address, Size, ubFill, ubCopy) ==
    LET r == ReadOutcome(Address, Size, ubFill, ubCopy)
    IN  /\ CanRun
        /\ Applies(r.fillEscapes, ubFill)
        /\ Applies(r.copyEscapes, ubCopy)
        /\ nOps' = nOps + 1
        /\ lastOp' = Op("read", Address, Size, 0, r.eff, r.calls)
        /\ arena' = r.arena
        /\ rdBuf' = r.rdBuf
        /\ Faulted' = r.Faulted
        /\ UNCHANGED << BaseAddress, VdmRunning, A20Line, heap, freed, vgaMem,
                        cpu, devices, bops, message >>

\* the transfer of a forwarded write done the other way round: the
\* adapter is handed the arena before the payload is stored
StoreAndForward_ForwardFirst(eff, Size, seed, va, as) ==
    [calls |-> << Call("VgaWriteMemory", va, as), Call("RtlCopyMemory", eff, Size) >>,
     arena |-> CopyIn(arena, eff, Size, seed),
     vgaMem |-> VgaWriteMemory(arena, va, as)]

\* The transfer of a write that reaches the video region: the payload is
\* stored in the arena, then the adapter is handed the arena bytes
\* [va, va + as).
StoreAndForward(eff, Size, seed, va, as) ==
    LET copied == CopyIn(arena, eff, Size, seed)
    IN  [calls |-> << Call("RtlCopyMemory", eff, Size), Call("VgaWriteMemory", va, as) >>,
         arena |-> copied,
         vgaMem |-> VgaWriteMemory(copied, va, as)]

\* What a write does to the arena and to the adapter, the calls it makes, and
\* whether it ends the process.
WriteOutcome(Address, Size, seed, ub) ==
    LET eff == MaskA20(Address)
        vga == TouchesVga(eff, Size)
        va == VgaAddressOf(eff)
        as == ActualSizeOf(eff, Size)
        copy == Call("RtlCopyMemory", eff, Size)
        copied == CopyIn(arena, eff, Size, seed)
        both == StoreAndForward(eff, Size, seed, va, as)
        copyFaults == ~Owned(eff, Size) /\ ub = "fault"
        forwardFaults == vga /\ ~Owned(va, as) /\ ub = "fault"
    IN  IF OutOfBounds(eff, Size) \/ TouchesRom(eff, Size)
           THEN [eff |-> eff, calls |-> << >>, arena |-> arena,
                 vgaMem |-> vgaMem, Faulted |-> FALSE, escapes |-> FALSE]
        ELSE IF copyFaults
           THEN [eff |-> eff, calls |-> << copy >>, arena |-> copied,
                 vgaMem |-> vgaMem, Faulted |-> TRUE, escapes |-> TRUE]
           ELSE [eff |-> eff,
                 calls |-> IF vga THEN both.calls ELSE << copy >>,
                 arena |-> IF vga THEN both.arena ELSE copied,
                 vgaMem |-> IF vga THEN both.vgaMem ELSE vgaMem,
                 Faulted |-> forwardFaults,
                 escapes |-> Escapes(eff, Size)]

EmulatorWriteMemory(Address, Size, seed, ub) ==
    LET w == WriteOutcome(Address, Size, seed, ub)
    IN  /\ CanRun
        /\ Applies(w.escapes, ub)
        /\ nOps' = nOps + 1
        /\ lastOp' = Op("write", Address, Size, seed, w.eff, w.calls)
        /\ arena' = w.arena
        /\ vgaMem' = w.vgaMem
        /\ Faulted' = w.Faulted
        /\ UNCHANGED << BaseAddress, VdmRunning, A20Line, heap, freed, rdBuf,
                        cpu, devices, bops, message >>

EmulatorSetA20(Enabled) ==
    /\ CanRun
    /\ A20Line' = Enabled
    /\ lastOp' = CtlOp("setA20", << >>, 0)
    /\ nOps' = nOps + 1
    /\ UNCHANGED << BaseAddress, VdmRunning, heap, freed, arena, vgaMem, rdBuf,
                    cpu, devices, bops, message, Faulted >>

(***************************************************************************)
(* Set-up and tear-down                                                    *)
(***************************************************************************)
\* the CPU engine before Fast486Initialize
NoCpu == [ready |-> FALSE, IntFlag |-> FALSE, CS |-> 0, IP |-> 0,
          intr |-> -1, signal |-> FALSE, steps |-> 0]
\* the CPU engine after Fast486Initialize and setIF(1)
FreshCpu == [ready |-> TRUE, IntFlag |-> TRUE, CS |-> 0, IP |-> 0,
             intr |-> -1, signal |-> FALSE, steps |-> 0]

InitCalls ==
    << Plain("HeapAlloc"), Plain("Fast486Initialize"), Plain("setIF"),
       Plain("PicInitialize"), Plain("PitInitialize"), Plain("CmosInitialize"),
       Plain("SpeakerInitialize"), Plain("PS2Initialize"), Plain("VgaInitialize"),
       Plain("RegisterBop"), Plain("VDDSupInitialize") >>

\* the device states EmulatorInitialize leaves; VgaInitialize reports vgaOk
InitDevices(vgaOk) ==
    [d \in Devices |-> IF d = "Vga" /\ ~vgaOk THEN "failed" ELSE "up"]

\* initialization that gives up when VgaInitialize reports failure
EmulatorInitialize_VgaChecked(ok, vgaOk) ==
    /\ CanRun
    /\ nOps' = nOps + 1
    /\ IF ~ok
          THEN /\ BaseAddress' = NULL
               /\ lastOp' = CtlOp("initialize", << Plain("HeapAlloc") >>, 0)
               /\ UNCHANGED << heap, arena, cpu, devices, bops >>
          ELSE /\ \E b \in Blocks :
                    /\ heap[b] = "unused"
                    /\ \A c \in Blocks : heap[c] = "unused" => b <= c
                    /\ BaseAddress' = b
                    /\ heap' = [heap EXCEPT ![b] = "live"]
               /\ arena' = ZeroMemory
               /\ cpu' = FreshCpu
               /\ devices' = InitDevices(vgaOk)
               /\ IF vgaOk
                     THEN /\ bops' = bops \cup { BOP_DEBUGGER }
                          /\ lastOp' = CtlOp("initialize", InitCalls, 1)
                     ELSE /\ bops' = bops
                          /\ lastOp' = CtlOp("initialize", SubSeq(InitCalls, 1, 9), 0)
    /\ UNCHANGED << VdmRunning, A20Line, freed, vgaMem, rdBuf, message, Faulted >>

\* ok: HeapAlloc found memory; vgaOk: what VgaInitialize returns
EmulatorInitialize(ok, vgaOk) ==
    /\ CanRun
    /\ nOps' = nOps + 1
    /\ IF ~ok
          THEN /\ BaseAddress' = NULL
               /\ lastOp' = CtlOp("initialize", << Plain("HeapAlloc") >>, 0)
               /\ UNCHANGED << heap, arena, cpu, devices, bops >>
          ELSE /\ \E b \in Blocks :
                    /\ heap[b] = "unused"
                    /\ \A c \in Blocks : heap[c] = "unused" => b <= c
                    /\ BaseAddress' = b
                    /\ heap' = [heap EXCEPT ![b] = "live"]
               /\ arena' = ZeroMemory
               /\ cpu' = FreshCpu
               /\ devices' = InitDevices(vgaOk)
               /\ bops' = bops \cup { BOP_DEBUGGER }
               /\ lastOp' = CtlOp("initialize", InitCalls, 1)
    /\ UNCHANGED << VdmRunning, A20Line, freed, vgaMem, rdBuf, message, Faulted >>

CleanupCalls == << Plain("PS2Cleanup"), Plain("SpeakerCleanup"), Plain("CmosCleanup") >>

\* ub: the outcome of HeapFree on a block that is not allocated
EmulatorCleanup(ub) ==
    /\ CanRun
    /\ Applies(BaseAddress # NULL /\ heap[BaseAddress] # "live", ub)
    /\ nOps' = nOps + 1
    /\ devices' = [d \in Devices |->
                      IF d \in { "PS2", "Speaker", "Cmos" } THEN "down" ELSE devices[d]]
    /\ IF BaseAddress # NULL
          THEN /\ lastOp' = CtlOp("cleanup", CleanupCalls \o << Plain("HeapFree") >>, 0)
               /\ freed' = [freed EXCEPT ![BaseAddress] = @ + 1]
               /\ heap' = [heap EXCEPT ![BaseAddress] = "freed"]
               /\ Faulted' = (heap[BaseAddress] # "live" /\ ub = "fault")
          ELSE /\ lastOp' = CtlOp("cleanup", CleanupCalls, 0)
               /\ UNCHANGED << freed, heap, Faulted >>
    /\ UNCHANGED << BaseAddress, VdmRunning, A20Line, arena, vgaMem, rdBuf,
                    cpu, bops, message >>

(***************************************************************************)
(* Faults, halting and the CPU engine                                      *)
(***************************************************************************)
\* SEG_OFF_TO_PTR(CodeSegment, InstructionPointer)[i]
OpcodeAt(CS, IP, i) == EndOf(ToLinear(CS, IP), Off32(i))

\* the opcode bytes taken through the adapter, as a guest read would
OpcodeBytes_Filled(CS, IP) ==
    [i \in { j \in 0 .. OpcodeCount - 1 : Followed(OpcodeAt(CS, IP, j)) } |->
        ByteAt(VgaRefill(arena, ToLinear(CS, IP), Off32(OpcodeCount)), OpcodeAt(CS, IP, i))]

\* Opcode[0] .. Opcode[9], read through the pointer BaseAddress + CS * 16 + IP.
\* The bytes read from memory that is not the arena's, beyond it or through
\* a dangling BaseAddress, are not followed.
OpcodeBytes(CS, IP) ==
    [i \in { j \in 0 .. OpcodeCount - 1 : Followed(OpcodeAt(CS, IP, j)) } |->
        ByteAt(arena, OpcodeAt(CS, IP, i))]

\* the handler with the divide error taken as resumable: it reports and
\* leaves the run flag alone
EmulatorException_Resumes(ExceptionNumber, CS, IP, ub) ==
    LET escapes == ~Owned(ToLinear(CS, IP), Off32(OpcodeCount))
        read == Call("Opcode", ToLinear(CS, IP), Off32(OpcodeCount))
    IN  /\ CanRun
        /\ Applies(escapes, ub)
        /\ nOps' = nOps + 1
        /\ IF escapes /\ ub = "fault"
              THEN /\ lastOp' = CtlOp("exception", << read >>, 0)
                   /\ Faulted' = TRUE
                   /\ UNCHANGED << message, VdmRunning >>
              ELSE /\ lastOp' = CtlOp("exception", << read, Plain("DisplayMessage") >>, 0)
                   /\ message' = [shown |-> TRUE, ExceptionNumber |-> ExceptionNumber,
                                  CS |-> CS, IP |-> IP,
                                  Opcode |-> OpcodeBytes(CS, IP)]
                   /\ VdmRunning' = (VdmRunning /\ ExceptionNumber = 0)
                   /\ UNCHANGED Faulted
        /\ UNCHANGED << BaseAddress, A20Line, heap, freed, arena, vgaMem, rdBuf,
                        cpu, devices, bops >>

\* ub: the outcome of reading opcode bytes that are not the arena's. Where the
\* read faults the process ends inside the handler: Faulted marks the end, no
\* operation follows, and the other variables are what the process held when
\* it ended; the handler has not returned.
EmulatorException(ExceptionNumber, CS, IP, ub) ==
    LET escapes == ~Owned(ToLinear(CS, IP), Off32(OpcodeCount))
        read == Call("Opcode", ToLinear(CS, IP), Off32(OpcodeCount))
    IN  /\ CanRun
        /\ Applies(escapes, ub)
        /\ nOps' = nOps + 1
        /\ IF escapes /\ ub = "fault"
              THEN /\ lastOp' = CtlOp("exception", << read >>, 0)
                   /\ Faulted' = TRUE
                   /\ UNCHANGED << message, VdmRunning >>
              ELSE /\ lastOp' = CtlOp("exception", << read, Plain("DisplayMessage") >>, 0)
                   /\ message' = [shown |-> TRUE, ExceptionNumber |-> ExceptionNumber,
                                  CS |-> CS, IP |-> IP,
                                  Opcode |-> OpcodeBytes(CS, IP)]
                   /\ VdmRunning' = FALSE
                   /\ UNCHANGED Faulted
        /\ UNCHANGED << BaseAddress, A20Line, heap, freed, arena, vgaMem, rdBuf,
                        cpu, devices, bops >>

\* the run flag flipped instead of cleared
VDDTerminateVDM_Toggle ==
    /\ CanRun
    /\ nOps' = nOps + 1
    /\ VdmRunning' = ~VdmRunning
    /\ lastOp' = CtlOp("terminate", << >>, 0)
    /\ UNCHANGED << BaseAddress, A20Line, heap, freed, arena, vgaMem, rdBuf,
                    cpu, devices, bops, message, Faulted >>

VDDTerminateVDM ==
    /\ CanRun
    /\ nOps' = nOps + 1
    /\ VdmRunning' = FALSE
    /\ lastOp' = CtlOp("terminate", << >>, 0)
    /\ UNCHANGED << BaseAddress, A20Line, heap, freed, arena, vgaMem, rdBuf,
                    cpu, devices, bops, message, Faulted >>

EmulatorStep ==
    /\ CanRun
    /\ nOps' = nOps + 1
    /\ cpu' = [cpu EXCEPT !.steps = @ + 1]
    /\ lastOp' = CtlOp("step", << Plain("Fast486StepInto") >>, 0)
    /\ UNCHANGED << BaseAddress, VdmRunning, A20Line, heap, freed, arena, vgaMem,
                    rdBuf, devices, bops, message, Faulted >>

EmulatorExecute(Segment, Offset) ==
    /\ CanRun
    /\ nOps' = nOps + 1
    /\ cpu' = [cpu EXCEPT !.CS = Segment, !.IP = Offset]
    /\ lastOp' = CtlOp("executeAt", << Plain("Fast486ExecuteAt") >>, 0)
    /\ UNCHANGED << BaseAddress, VdmRunning, A20Line, heap, freed, arena, vgaMem,
                    rdBuf, devices, bops, message, Faulted >>

EmulatorInterrupt(Number) ==
    /\ CanRun
    /\ nOps' = nOps + 1
    /\ cpu' = [cpu EXCEPT !.intr = Number]
    /\ lastOp' = CtlOp("requestInterrupt", << Plain("Fast486Interrupt") >>, 0)
    /\ UNCHANGED << BaseAddress, VdmRunning, A20Line, heap, freed, arena, vgaMem,
                    rdBuf, devices, bops, message, Faulted >>

EmulatorInterruptSignal ==
    /\ CanRun
    /\ nOps' = nOps + 1
    /\ cpu' = [cpu EXCEPT !.signal = TRUE]
    /\ lastOp' = CtlOp("signalInterrupt", << Plain("Fast486InterruptSignal") >>, 0)
    /\ UNCHANGED << BaseAddress, VdmRunning, A20Line, heap, freed, arena, vgaMem,
                    rdBuf, devices, bops, message, Faulted >>

\* vector: what PicGetInterrupt() answers
EmulatorIntAcknowledge(vector) ==
    /\ CanRun
    /\ nOps' = nOps + 1
    /\ lastOp' = CtlOp("acknowledgeInterrupt", << Plain("PicGetInterrupt") >>, vector)
    /\ UNCHANGED << BaseAddress, VdmRunning, A20Line, heap, freed, arena, vgaMem,
                    rdBuf, cpu, devices, bops, message, Faulted >>

\* the handler registered for BOP_DEBUGGER
EmulatorDebugBreak ==
    /\ CanRun
    /\ nOps' = nOps + 1
    /\ lastOp' = CtlOp("debugBreak", << Plain("DebugBreak") >>, 0)
    /\ UNCHANGED << BaseAddress, VdmRunning, A20Line, heap, freed, arena, vgaMem,
                    rdBuf, cpu, devices, bops, message, Faulted >>

(***************************************************************************)
(* Specifications                                                          *)
(***************************************************************************)
\* the process at start-up: the initializers of the file-scope variables
Init ==
    /\ BaseAddress = NULL
    /\ VdmRunning = TRUE
    /\ A20Line = FALSE
    /\ heap = [b \in Blocks |-> "unused"]
    /\ freed = [b \in Blocks |-> 0]
    /\ arena = ZeroMemory
    /\ vgaMem = ZeroMemory
    /\ rdBuf = BlankBuffer
    /\ cpu = NoCpu
    /\ devices = [d \in Devices |-> "none"]
    /\ bops = { }
    /\ message = NoMessage
    /\ lastOp = CtlOp("none", << >>, 0)
    /\ nOps = 0
    /\ Faulted = FALSE

\* the states a first, successful EmulatorInitialize leaves
InitMem ==
    /\ BaseAddress = 1
    /\ VdmRunning = TRUE
    /\ A20Line = FALSE
    /\ heap = [b \in Blocks |-> IF b = 1 THEN "live" ELSE "unused"]
    /\ freed = [b \in Blocks |-> 0]
    /\ arena = ZeroMemory
    /\ vgaMem = ZeroMemory
    /\ rdBuf = BlankBuffer
    /\ cpu = FreshCpu
    /\ \E vgaOk \in BOOLEAN : devices = InitDevices(vgaOk)
    /\ bops = { BOP_DEBUGGER }
    /\ message = NoMessage
    /\ lastOp = CtlOp("initialize", InitCalls, 1)
    /\ nOps = 1
    /\ Faulted = FALSE

\* the memory requests the CPU engine makes, and the A20 gate
NextMem ==
    \/ \E Address \in Addresses, Size \in Sizes, ubFill \in UBOutcomes, ubCopy \in UBOutcomes :
          EmulatorReadMemory(Address, Size, ubFill, ubCopy)
    \/ \E Address \in Addresses, Size \in Sizes, seed \in Seeds, ub \in UBOutcomes :
          EmulatorWriteMemory(Address, Size, seed, ub)
    \/ \E Enabled \in BOOLEAN : EmulatorSetA20(Enabled)

\* the same, with the requests made in runs of the whole core
NextCoreMem ==
    \/ \E Address \in CoreAddresses, Size \in CoreSizes, ubFill \in UBOutcomes, ubCopy \in UBOutcomes :
          EmulatorReadMemory(Address, Size, ubFill, ubCopy)
    \/ \E Address \in CoreAddresses, Size \in CoreSizes, seed \in Seeds, ub \in UBOutcomes :
          EmulatorWriteMemory(Address, Size, seed, ub)
    \/ \E Enabled \in BOOLEAN : EmulatorSetA20(Enabled)

\* every operation of the core, with the requests of RunAddresses x RunSizes
Next ==
    \/ \E Address \in RunAddresses, Size \in RunSizes, ubFill \in UBOutcomes, ubCopy \in UBOutcomes :
          EmulatorReadMemory(Address, Size, ubFill, ubCopy)
    \/ \E Address \in RunAddresses, Size \in RunSizes, seed \in RunSeeds, ub \in UBOutcomes :
          EmulatorWriteMemory(Address, Size, seed, ub)
    \/ \E Enabled \in BOOLEAN : EmulatorSetA20(Enabled)
    \/ \E ok \in BOOLEAN, vgaOk \in BOOLEAN : EmulatorInitialize(ok, vgaOk)
    \/ \E ub \in UBOutcomes : EmulatorCleanup(ub)
    \/ \E n \in ExceptionNumbers, s \in FaultSites, ub \in UBOutcomes :
          EmulatorException(n, s[1], s[2], ub)
    \/ VDDTerminateVDM
    \/ EmulatorStep
    \/ \E s \in FaultSites : EmulatorExecute(s[1], s[2])
    \/ \E n \in { 8, 33 } : EmulatorInterrupt(n)
    \/ EmulatorInterruptSignal
    \/ \E v \in { 8, 9 } : EmulatorIntAcknowledge(v)
    \/ EmulatorDebugBreak

Spec == Init /\ [][Next]_vars
SpecMem == InitMem /\ [][NextMem]_vars
SpecCoreMem == InitMem /\ [][NextCoreMem]_vars

(***************************************************************************)
(* Properties                                                              *)
(***************************************************************************)
IsMemOp(op) == op.op \in { "read", "write" }
\* addr | (1 << 20)
SetBit20(x) == U32(x[1] - (x[1] % 2) + 1, x[2])
\* byte p of the arena lies in the read-only region
InRom(p) == Ge32(Off32(p), ROM_AREA_START) /\ Lt32(Off32(p), ROM_AREA_END)
\* the request address after A20 masking, from the gate and the argument
Masked(op) == IF A20Line THEN op.Address ELSE ClearBit20(op.Address)
\* the calls of an operation that are handed bytes of the arena
MemoryCalls == { "RtlCopyMemory", "VgaReadMemory", "VgaWriteMemory" }
DeviceCalls == { "VgaReadMemory", "VgaWriteMemory" }
CallsOf(op, fns) == { i \in 1 .. Len(op.calls) : op.calls[i].fn \in fns }

\* C1: no arena byte copy and no device fill or forward made by a memory
\* request touches an offset outside [0, MAX_ADDRESS), whatever the 32-bit
\* Address and Size, pairs whose sum wraps included.
C1_NoAccessOutsideArena ==
    \A i \in CallsOf(lastOp, MemoryCalls) :
        InArena(lastOp.calls[i].addr, lastOp.calls[i].size)

\* C2: every byte of the read-only region [ROM_AREA_START, ROM_AREA_END)
\* keeps the value it had when the arena was created (zero), whatever
\* requests are made.
C2_RomKeepsInitialValue ==
    \A p \in Probes : InRom(p) => arena[p] = 0

\* C3: once the run flag is FALSE, EmulatorStep does not ask the CPU engine
\* to execute an instruction.
C3_NoStepAfterHalt ==
    (lastOp.op = "step" /\ ~VdmRunning) => CallsOf(lastOp, { "Fast486StepInto" }) = { }

\* the masked request [a, a + n) of op shares a byte with the video region
OverlapsVideo(op) ==
    /\ op.Size # Zero32
    /\ Lt32(Masked(op), VgaGetVideoLimitAddress)
    /\ Lt32(VgaGetVideoBaseAddress, EndOf(Masked(op), op.Size))
\* the intersection of the masked request of op with the video region
VideoPartAddress(op) == Max32(Masked(op), VgaGetVideoBaseAddress)
VideoPartSize(op) ==
    Sub32(Min32(EndOf(Masked(op), op.Size), VgaGetVideoLimitAddress), VideoPartAddress(op))

\* C4: an accepted write whose masked range overlaps the video region
\* [base, limit) calls the device write entry point with address
\* max(a, base) and length min(a + n, limit) - max(a, base).
C4_ForwardsIntersection ==
    (lastOp.op = "write" /\ lastOp.calls # << >> /\ ~Faulted /\ OverlapsVideo(lastOp)) =>
        /\ CallsOf(lastOp, { "VgaWriteMemory" }) # { }
        /\ \A i \in CallsOf(lastOp, { "VgaWriteMemory" }) :
              /\ lastOp.calls[i].addr = VideoPartAddress(lastOp)
              /\ lastOp.calls[i].size = VideoPartSize(lastOp)

\* the masked request of op is in bounds and holds no byte of the ROM region
InBoundsOffRom(op) ==
    /\ Lt32(EndOf(Masked(op), op.Size), MAX_ADDRESS)
    /\ \/ op.Size = Zero32
       \/ ~Lt32(ROM_AREA_START, EndOf(Masked(op), op.Size))
       \/ ~Lt32(Masked(op), ROM_AREA_END)

\* C5: a write whose masked range [a, a + n) is in bounds and holds no byte
\* of the read-only region stores its payload into arena bytes [a, a + n)
\* and changes no other arena byte.
C5_WriteOffRomStores ==
    [][ (lastOp'.op = "write" /\ nOps' = nOps + 1 /\ InBoundsOffRom(lastOp')) =>
            \A p \in Probes :
                arena'[p] = IF InRange(p, Masked(lastOp'), lastOp'.Size)
                               THEN Payload(lastOp'.seed, p - Idx(Masked(lastOp')))
                               ELSE arena[p] ]_vars

\* C6: a read or write whose masked address + length is at or beyond
\* MAX_ADDRESS is dropped: the arena and the caller's buffer are unchanged
\* and no device entry point is called.
C6_BeyondArenaDropped ==
    [][ (IsMemOp(lastOp') /\ nOps' = nOps + 1
         /\ ~Lt32(EndOf(Masked(lastOp'), lastOp'.Size), MAX_ADDRESS)) =>
            /\ arena' = arena
            /\ vgaMem' = vgaMem
            /\ (lastOp'.op = "read" => rdBuf' = BlankBuffer)
            /\ lastOp'.calls = << >> ]_vars

\* addresses with bit 20 clear
Bit20Clear(Address) == Address[1] % 2 = 0

\* C7: with the A20 gate clear a request at addr and the request at
\* addr | (1 << 20) touch the same arena bytes, return the same data and
\* leave the same arena and adapter; with the gate set the bytes copied are
\* those at the address as given.
C7_A20Alias ==
    /\ ~A20Line =>
          \A Address \in { a \in Addresses : Bit20Clear(a) }, Size \in Sizes :
              /\ \A ubFill \in UBOutcomes, ubCopy \in UBOutcomes :
                    (Escapes(Address, Size) \/ { ubFill, ubCopy } = { "overrun" }) =>
                        ReadOutcome(Address, Size, ubFill, ubCopy)
                            = ReadOutcome(SetBit20(Address), Size, ubFill, ubCopy)
              /\ \A ub \in UBOutcomes, seed \in Seeds :
                    Applies(Escapes(Address, Size), ub) =>
                        WriteOutcome(Address, Size, seed, ub)
                            = WriteOutcome(SetBit20(Address), Size, seed, ub)
    /\ IsMemOp(lastOp) =>
          \A i \in CallsOf(lastOp, { "RtlCopyMemory" }) : lastOp.calls[i].addr = Masked(lastOp)

\* a read at an address with bit 20 set was served, with the gate clear, from
\* the bytes of the address with bit 20 clear
C7_Witness ==
    /\ ~A20Line
    /\ lastOp.op = "read"
    /\ ~Bit20Clear(lastOp.Address)
    /\ \E i \in CallsOf(lastOp, { "RtlCopyMemory" }) :
          lastOp.calls[i].addr = ClearBit20(lastOp.Address)
    /\ rdBuf[0] \in Bytes \ { 0 }

\* C8: no arena is released twice, and EmulatorCleanup with a null arena
\* pointer releases nothing.
C8_ReleasedAtMostOnce ==
    /\ \A b \in Blocks : freed[b] <= 1
    /\ (lastOp.op = "cleanup" /\ BaseAddress = NULL) =>
          CallsOf(lastOp, { "HeapFree" }) = { }

\* C9: the run flag starts TRUE and, once FALSE, is never TRUE again.
C9_RunStateOneWay ==
    (VdmRunning = TRUE) /\ [][ (VdmRunning = FALSE) => (VdmRunning' = FALSE) ]_vars

\* the machine was halted and an operation other than a halt followed
C9_Witness ==
    /\ ~VdmRunning
    /\ lastOp.op \in { "initialize", "cleanup", "step", "executeAt", "requestInterrupt",
                       "signalInterrupt", "setA20", "read", "write" }

\* the masked request of op lies inside the video region and in bounds
InsideVideo(op) ==
    /\ op.Size # Zero32
    /\ Ge32(Masked(op), VgaGetVideoBaseAddress)
    /\ ~Lt32(VgaGetVideoLimitAddress, EndOf(Masked(op), op.Size))
    /\ Lt32(EndOf(Masked(op), op.Size), MAX_ADDRESS)

\* C10: a read that directly follows a write of the same range, the range
\* lying inside the video region, returns the adapter's contents for that
\* range as they are after the write.
C10_ReadsBackDevice ==
    [][ (/\ lastOp.op = "write" /\ InsideVideo(lastOp)
         /\ lastOp'.op = "read" /\ nOps' = nOps + 1
         /\ lastOp'.Address = lastOp.Address /\ lastOp'.Size = lastOp.Size) =>
            \A i \in 0 .. Window - 1 :
                Lt32(Off32(i), lastOp.Size) =>
                    rdBuf'[i] = vgaMem[Idx(EndOf(Masked(lastOp), Off32(i)))] ]_vars

\* two operations after set-up, a read has returned what the adapter holds,
\* the adapter holds written bytes on exactly the range read, and these are
\* not the bytes the write left in the arena before the read
C10_Witness ==
    /\ nOps = 3
    /\ lastOp.op = "read"
    /\ InsideVideo(lastOp)
    /\ \A p \in Probes : (vgaMem[p] # 0) <=> InRange(p, Masked(lastOp), lastOp.Size)
    /\ \A i \in 0 .. Window - 1 :
          Lt32(Off32(i), lastOp.Size) =>
              /\ rdBuf[i] = vgaMem[Idx(Masked(lastOp)) + i]
              /\ \A seed \in Seeds : rdBuf[i] # Payload(seed, i)

\* the masked request of op holds at least one byte of the ROM region
IntersectsRom(op) ==
    /\ op.Size # Zero32
    /\ Lt32(Masked(op), ROM_AREA_END)
    /\ Lt32(ROM_AREA_START, EndOf(Masked(op), op.Size))

\* C11: a write whose masked range holds any byte of the read-only region
\* is dropped whole: no arena byte changes, inside the region or outside
\* it, and the device write entry point is not called even when the range
\* also overlaps the video region.
C11_RomWriteDroppedWhole ==
    [][ (lastOp'.op = "write" /\ nOps' = nOps + 1 /\ IntersectsRom(lastOp')) =>
            /\ arena' = arena
            /\ vgaMem' = vgaMem
            /\ CallsOf(lastOp', { "VgaWriteMemory" }) = { } ]_vars

\* C12: each halt request halts whatever the state before it: when
\* EmulatorException has returned, for every exception number 0..7 and
\* every CS:IP on the stack, and when VDDTerminateVDM has returned, the run
\* flag is FALSE.
C12_HaltsUnconditionally ==
    (lastOp.op \in { "exception", "terminate" } /\ ~Faulted) => VdmRunning = FALSE

\* the handler was entered on a live arena with a fault site whose opcode
\* bytes lie beyond it, has shown its diagnostic and returned, and the
\* machine is halted
C12_Witness ==
    /\ lastOp.op = "exception"
    /\ ~Faulted
    /\ MemLive
    /\ message.shown
    /\ message.ExceptionNumber = 0
    /\ message.CS = 65535 /\ message.IP = 65535
    /\ VdmRunning = FALSE

\* C13: EmulatorInitialize reports failure exactly when the arena
\* allocation fails, whatever the devices report, and a failing call has
\* built no CPU engine, initialized no device and registered no hypercall.
C13_InitFailsOnlyOnAllocation ==
    [][ (lastOp'.op = "initialize" /\ nOps' = nOps + 1) =>
            /\ (lastOp'.ret = 0) <=> (BaseAddress' = NULL)
            /\ (lastOp'.ret = 0) =>
                  /\ cpu' = cpu
                  /\ devices' = devices
                  /\ bops' = bops
                  /\ lastOp'.calls = << Plain("HeapAlloc") >> ]_vars

\* an initialization succeeded although the video adapter reported failure,
\* and a later one failed on the allocation and left that machine as it was
C13_Witness ==
    /\ lastOp.op = "initialize"
    /\ lastOp.ret = 0
    /\ BaseAddress = NULL
    /\ cpu.ready
    /\ devices["Vga"] = "failed"
    /\ \A d \in Devices \ { "Vga" } : devices[d] = "up"
    /\ bops = { BOP_DEBUGGER }

\* C14: a read that reaches the video region calls the device read entry
\* point before it copies to the caller, so the caller gets the adapter's
\* contents; a write that reaches it stores the payload in the arena before
\* it calls the device write entry point, so the bytes the adapter is
\* handed are the payload bytes of the forwarded range.
C14_TransferOrder ==
    /\ lastOp.op = "read" =>
          \A i \in CallsOf(lastOp, { "VgaReadMemory" }) :
              /\ \A j \in CallsOf(lastOp, { "RtlCopyMemory" }) : i < j
              /\ ~Faulted =>
                    \A k \in 0 .. Window - 1 :
                        (/\ Lt32(Off32(k), lastOp.Size)
                         /\ Lt32(EndOf(lastOp.eff, Off32(k)), MAX_ADDRESS)
                         /\ InRange(Idx(lastOp.eff) + k, lastOp.calls[i].addr,
                                    lastOp.calls[i].size)) =>
                            rdBuf[k] = vgaMem[Idx(lastOp.eff) + k]
    /\ lastOp.op = "write" =>
          \A i \in CallsOf(lastOp, { "VgaWriteMemory" }) :
              /\ \E j \in CallsOf(lastOp, { "RtlCopyMemory" }) : j < i
              /\ \A p \in Probes :
                    InRange(p, lastOp.calls[i].addr, lastOp.calls[i].size) =>
                        vgaMem[p] = VgaStore(Payload(lastOp.seed, p - Idx(lastOp.eff)))

\* a write has handed the adapter a non-empty range, and the adapter holds
\* what it makes of the payload the write left in the arena on that range
C14_Witness ==
    /\ lastOp.op = "write"
    /\ ~Faulted
    /\ \E i \in CallsOf(lastOp, { "VgaWriteMemory" }) :
          /\ lastOp.calls[i].size # Zero32
          /\ \E p \in Probes : InRange(p, lastOp.calls[i].addr, lastOp.calls[i].size)
          /\ \A p \in Probes :
                InRange(p, lastOp.calls[i].addr, lastOp.calls[i].size) =>
                    /\ arena[p] = Payload(lastOp.seed, p - Idx(lastOp.eff))
                    /\ vgaMem[p] = VgaStore(arena[p])

\* C15: a device entry point is called only when the masked range shares at
\* least one byte with the video region [base, limit): a request that ends
\* just at base, starts at or beyond limit, or has length 0 makes no device
\* call, and no device call has length 0.
C15_DeviceCallsNeedOverlap ==
    IsMemOp(lastOp) =>
        \A i \in CallsOf(lastOp, DeviceCalls) :
            /\ OverlapsVideo(lastOp)
            /\ lastOp.calls[i].size # Zero32

\* C16: for every 16-bit CS and IP on the stack the ten opcode bytes
\* EmulatorException reads for its diagnostic, at CS * 16 + IP up to
\* CS * 16 + IP + 9, lie inside the arena [0, MAX_ADDRESS).
C16_OpcodeBytesInsideArena ==
    lastOp.op = "exception" =>
        \A i \in CallsOf(lastOp, { "Opcode" }) :
            InArena(lastOp.calls[i].addr, lastOp.calls[i].size)

\* the n-th device EmulatorInitialize brings up, in the order of its calls
InitOrder == << "Pic", "Pit", "Cmos", "Speaker", "PS2", "Vga" >>
\* the position in the calls of op of the call named fn, 0 when it is not made
CallIndex(op, fn) ==
    IF CallsOf(op, { fn }) = { } THEN 0 ELSE CHOOSE i \in CallsOf(op, { fn }) : TRUE

\* C17: EmulatorCleanup tears the devices down in the reverse of the order
\* EmulatorInitialize brought them up (interrupt controller, timer,
\* real-time clock, sound, input, video): every device that was initialized
\* is cleaned up, a device initialized later is cleaned up earlier, and the
\* arena is released after the last device teardown.
C17_ReverseTeardown ==
    [][ (lastOp'.op = "cleanup" /\ nOps' = nOps + 1) =>
            /\ \A m \in 1 .. Len(InitOrder) :
                  devices[InitOrder[m]] = "up" =>
                      /\ devices'[InitOrder[m]] = "down"
                      /\ CallIndex(lastOp', InitOrder[m] \o "Cleanup") # 0
            /\ \A m, n \in 1 .. Len(InitOrder) :
                  (/\ m < n
                   /\ CallIndex(lastOp', InitOrder[m] \o "Cleanup") # 0
                   /\ CallIndex(lastOp', InitOrder[n] \o "Cleanup") # 0) =>
                      CallIndex(lastOp', InitOrder[n] \o "Cleanup")
                          < CallIndex(lastOp', InitOrder[m] \o "Cleanup")
            /\ \A i \in CallsOf(lastOp', { "HeapFree" }) :
                  \A m \in 1 .. Len(InitOrder) :
                      CallIndex(lastOp', InitOrder[m] \o "Cleanup") < i ]_vars

\* byte p of the arena lies in the device-backed region
InVideo(p) ==
    Ge32(Off32(p), VgaGetVideoBaseAddress) /\ Lt32(Off32(p), VgaGetVideoLimitAddress)

\* C18: a read changes no arena byte outside the device-backed region
\* [base, limit), a read whose masked range does not overlap that region
\* changes no arena byte at all, and no read changes the A20 gate or the
\* run flag.
C18_ReadFrame ==
    [][ (lastOp'.op = "read" /\ nOps' = nOps + 1) =>
            /\ \A p \in Probes : ~InVideo(p) => arena'[p] = arena[p]
            /\ ~OverlapsVideo(lastOp') => arena' = arena
            /\ A20Line' = A20Line
            /\ VdmRunning' = VdmRunning ]_vars

\* C19: EmulatorException changes nothing but the run flag and the
\* diagnostic: the arena, the adapter and the A20 gate are as before and no
\* device entry point is called; the opcode bytes of the diagnostic are read
\* at CS * 16 + IP, whatever the A20 gate, and those read inside an
\* allocated arena are the arena's own bytes there, not the adapter's.
C19_ExceptionFrame ==
    [][ (lastOp'.op = "exception" /\ nOps' = nOps + 1) =>
            /\ arena' = arena
            /\ vgaMem' = vgaMem
            /\ A20Line' = A20Line
            /\ UNCHANGED << BaseAddress, heap, freed, rdBuf, cpu, devices, bops >>
            /\ CallsOf(lastOp', MemoryCalls) = { }
            /\ CallIndex(lastOp', "DisplayMessage") # 0 =>
                  /\ \A k \in CallsOf(lastOp', { "Opcode" }) :
                        lastOp'.calls[k].addr = ToLinear(message'.CS, message'.IP)
                  /\ \A i \in 0 .. OpcodeCount - 1 :
                        Followed(OpcodeAt(message'.CS, message'.IP, i)) =>
                            /\ i \in DOMAIN message'.Opcode
                            /\ message'.Opcode[i]
                                  = arena[Idx(OpcodeAt(message'.CS, message'.IP, i))] ]_vars

\* a fault was reported at a site in the video region where the arena and
\* the adapter hold different bytes, and the diagnostic shows the arena's
C19_Witness ==
    /\ lastOp.op = "exception"
    /\ message.shown
    /\ ~VdmRunning
    /\ InVideo(Idx(ToLinear(message.CS, message.IP)))
    /\ MemLive
    /\ 0 \in DOMAIN message.Opcode
    /\ message.Opcode[0] = arena[Idx(ToLinear(message.CS, message.IP))]
    /\ message.Opcode[0] # vgaMem[Idx(ToLinear(message.CS, message.IP))]
    /\ message.Opcode[0] # 0

=============================================================================
